---- MODULE Spec2Model ----
(***************************************************************************)
(* The GPS coordinate data migration convert_gps_strings_to_floats         *)
(* (django_migration_fix.py) as a state machine, together with Python's    *)
(* float() text conversion that the migration applies to each textual      *)
(* field, and ScanDetailSerializer.to_representation                       *)
(* (django_models_fix.py).                                                  *)
(*                                                                         *)
(* Spec is the migration's pass over the table, FairSpec the same pass     *)
(* with its steps taken, SpecParse float() on one text, and SpecRepr       *)
(* to_representation on one base representation.                            *)
(*                                                                         *)
(* A text is a sequence of one-character strings.  A float is a record     *)
(*   [cls, neg, mant, exp]                                                  *)
(* with cls one of "fin", "inf", "nan"; a finite float stands for the      *)
(* double nearest to (-1)^neg * mant * 10^exp, mant carrying no trailing   *)
(* zero (short decimals of up to 15 digits name distinct doubles, so the   *)
(* pair identifies the double).                                             *)
(***************************************************************************)
EXTENDS Integers, Sequences, FiniteSets, TLC

VARIABLES table, input, gps_point, i, pc, normalized, failed, visited, run,
          txt, res, base, data, rpc

vars == <<table, input, gps_point, i, pc, normalized, failed, visited, run,
          txt, res, base, data, rpc>>

reprVars == <<base, data, rpc>>

passVars == <<table, input, gps_point, i, pc, normalized, failed, visited, run>>

(***************************************************************************)
(* Bounds of the model.                                                    *)
(***************************************************************************)
\* longest text the conversion is applied to in SpecParse
MaxLen == 3
\* most rows the table holds when the migration starts
MaxRecords == 2

(***************************************************************************)
(* Characters.                                                             *)
(***************************************************************************)
Digits == {"0", "1", "2", "3", "4", "5", "6", "7", "8", "9"}

IsDigit(c) == c \in Digits

DigitVal(c) ==
    CASE c = "0" -> 0 [] c = "1" -> 1 [] c = "2" -> 2 [] c = "3" -> 3
      [] c = "4" -> 4 [] c = "5" -> 5 [] c = "6" -> 6 [] c = "7" -> 7
      [] c = "8" -> 8 [] c = "9" -> 9

IsSpace(c) == c \in {" ", "\t", "\n", "\r", "\f"}

Lower(c) ==
    CASE c = "I" -> "i" [] c = "N" -> "n" [] c = "F" -> "f" [] c = "A" -> "a"
      [] c = "T" -> "t" [] c = "Y" -> "y" [] c = "E" -> "e" [] OTHER -> c

SetMin(S) == CHOOSE m \in S : \A k \in S : m <= k

SetMax(S) == CHOOSE m \in S : \A k \in S : m >= k

RECURSIVE Pow10(_)
Pow10(n) == IF n <= 0 THEN 1 ELSE 10 * Pow10(n - 1)

RECURSIVE NumDigits(_)
NumDigits(n) == IF n < 10 THEN 1 ELSE 1 + NumDigits(n \div 10)

RECURSIVE DigitsToNat(_)
DigitsToNat(ds) ==
    IF ds = <<>> THEN 0
    ELSE 10 * DigitsToNat(SubSeq(ds, 1, Len(ds) - 1)) + DigitVal(ds[Len(ds)])

(***************************************************************************)
(* Floats.                                                                 *)
(***************************************************************************)
NoValue == [cls |-> "none", neg |-> FALSE, mant |-> 0, exp |-> 0]

Inf(neg) == [cls |-> "inf", neg |-> neg, mant |-> 0, exp |-> 0]

NaN(neg) == [cls |-> "nan", neg |-> neg, mant |-> 0, exp |-> 0]

Zero(neg) == [cls |-> "fin", neg |-> neg, mant |-> 0, exp |-> 0]

RECURSIVE Normal(_, _, _)
Normal(neg, mant, exp) ==
    IF mant = 0 THEN Zero(neg)
    ELSE IF mant % 10 = 0 THEN Normal(neg, mant \div 10, exp + 1)
    ELSE [cls |-> "fin", neg |-> neg, mant |-> mant, exp |-> exp]

\* The first nd digits of DBL_MAX = 1.7976931348623157e308 and of half the
\* smallest subnormal, 2.4703282292062327e-324: a decimal of nd <= 9 digits
\* and the same power of ten lies above them exactly when its digits do.
DblMaxDigits(nd) == 179769313 \div Pow10(9 - nd)

HalfMinDigits(nd) == 247032822 \div Pow10(9 - nd)

\* The double a correctly rounded conversion gives for mant * 10^exp:
\* overflow gives an infinity, underflow a zero.
ToDouble(neg, mant, exp) ==
    LET d == Normal(neg, mant, exp)
        nd == NumDigits(d.mant)
        mag == nd + d.exp - 1
    IN  IF d.mant = 0 THEN d
        ELSE IF mag > 308 \/ (mag = 308 /\ d.mant > DblMaxDigits(nd)) THEN Inf(neg)
        ELSE IF mag < -324 \/ (mag = -324 /\ d.mant <= HalfMinDigits(nd)) THEN Zero(neg)
        ELSE d

IsFinite(d) == d.cls = "fin"

\* |d| <= lim for a finite d and lim < 1000.
AbsLeq(d, lim) ==
    IF d.mant = 0 THEN TRUE
    ELSE IF d.exp >= 0
         THEN d.exp <= 2 /\ d.mant <= 999 /\ d.mant * Pow10(d.exp) <= lim
    ELSE IF NumDigits(d.mant) + d.exp <= 0 THEN TRUE
    ELSE d.mant \div Pow10(-d.exp) < lim

(***************************************************************************)
(* float(text), as CPython's float_from_string computes it: strip the      *)
(* surrounding whitespace, check and drop the underscores, then read      *)
(* inf/infinity/nan or a decimal with an optional exponent; the whole      *)
(* text must be consumed, or ValueError is raised.                          *)
(***************************************************************************)
\* Strip that forgets the trailing whitespace (lstrip for strip).
StripLeadingOnly(s) ==
    LET keep == {k \in 1..Len(s) : ~IsSpace(s[k])}
    IN  IF keep = {} THEN <<>> ELSE SubSeq(s, SetMin(keep), Len(s))

Strip(s) ==
    LET keep == {k \in 1..Len(s) : ~IsSpace(s[k])}
    IN  IF keep = {} THEN <<>> ELSE SubSeq(s, SetMin(keep), SetMax(keep))

UnderscoresOk(s) ==
    \A k \in 1..Len(s) :
        s[k] = "_" => /\ k > 1 /\ IsDigit(s[k - 1])
                      /\ k < Len(s) /\ IsDigit(s[k + 1])

NotUnderscore(c) == c # "_"

DropUnderscores(s) == SelectSeq(s, NotUnderscore)

\* length of the longest run of digits of s that starts at position k
DigitRun(s, k) ==
    SetMax({m \in 0..(Len(s) - k + 1) : \A j \in k..(k + m - 1) : IsDigit(s[j])})

ValueError == [status |-> "ValueError", value |-> NoValue]

Parsed(d) == [status |-> "ok", value |-> d]

NotParsed == [status |-> "none", value |-> NoValue]

InfOrNan(neg, w) ==
    LET word == [k \in 1..Len(w) |-> Lower(w[k])]
    IN  IF word \in {<<"i", "n", "f">>, <<"i", "n", "f", "i", "n", "i", "t", "y">>}
        THEN Parsed(Inf(neg))
        ELSE IF word = <<"n", "a", "n">> THEN Parsed(NaN(neg))
        ELSE ValueError

StrToDouble(t) ==
    LET n == Len(t)
        hasSign == n >= 1 /\ t[1] \in {"+", "-"}
        neg == hasSign /\ t[1] = "-"
        b == IF hasSign THEN SubSeq(t, 2, n) ELSE t
        m == Len(b)
        ni == DigitRun(b, 1)
        p1 == 1 + ni
        hasDot == p1 <= m /\ b[p1] = "."
        p2 == IF hasDot THEN p1 + 1 ELSE p1
        nf == IF hasDot THEN DigitRun(b, p2) ELSE 0
        p3 == p2 + nf
        hasE == p3 <= m /\ b[p3] \in {"e", "E"}
        p4 == p3 + 1
        eSign == hasE /\ p4 <= m /\ b[p4] \in {"+", "-"}
        eNeg == eSign /\ b[p4] = "-"
        p5 == IF eSign THEN p4 + 1 ELSE p4
        ne == IF hasE THEN DigitRun(b, p5) ELSE 0
        stop == IF hasE /\ ne >= 1 THEN p5 + ne ELSE p3
        mant == DigitsToNat(SubSeq(b, 1, ni) \o SubSeq(b, p2, p3 - 1))
        e10 == IF hasE /\ ne >= 1 THEN DigitsToNat(SubSeq(b, p5, p5 + ne - 1)) ELSE 0
        exp == (IF eNeg THEN 0 - e10 ELSE e10) - nf
    IN  IF m >= 1 /\ Lower(b[1]) \in {"i", "n"} THEN InfOrNan(neg, b)
        ELSE IF ni + nf = 0 THEN ValueError
        ELSE IF stop # m + 1 THEN ValueError
        ELSE Parsed(ToDouble(neg, mant, exp))

PyFloat(s) ==
    LET t == Strip(s)
    IN  IF t = <<>> THEN ValueError
        ELSE IF ~UnderscoresOk(t) THEN ValueError
        ELSE StrToDouble(DropUnderscores(t))

(***************************************************************************)
(* ScanDetailSerializer.to_representation (django_models_fix.py).  The     *)
(* representation is a dictionary from field names to values; a value is   *)
(* absent, null, an int, a float or an opaque other value.                  *)
(***************************************************************************)
Absent == [kind |-> "absent", n |-> 0, val |-> NoValue]

Null == [kind |-> "null", n |-> 0, val |-> NoValue]

IntV(n) == [kind |-> "int", n |-> n, val |-> NoValue]

FloatV(d) == [kind |-> "float", n |-> 0, val |-> d]

Other(n) == [kind |-> "other", n |-> n, val |-> NoValue]

Raised == [kind |-> "raise", n |-> 0, val |-> NoValue]

\* Meta.fields
ScanFields ==
    {"id", "user", "title", "description", "duration", "area_covered",
     "height", "data_size_mb", "status", "gps_points", "point_cloud",
     "upload_status", "images", "total_images", "created_at", "updated_at"}

IntFields == {"duration", "total_images"}

FloatFields == {"area_covered", "height", "data_size_mb"}

\* data.get(key): None for a missing key
Get(d, key) == IF d[key].kind = "absent" THEN Null ELSE d[key]

\* the truth value of a Python object: None, 0, 0.0 and -0.0 are false, a
\* nan is true
Truthy(v) ==
    CASE v.kind = "int" -> v.n # 0
      [] v.kind = "float" -> ~(v.val.cls = "fin" /\ v.val.mant = 0)
      [] v.kind = "other" -> TRUE
      [] OTHER -> FALSE

\* int(v): an int as it is, a finite float cut towards zero; nan and the
\* infinities raise
PyInt(v) ==
    CASE v.kind = "int" -> v
      [] v.kind = "float" /\ v.val.cls = "fin" ->
            LET m == IF v.val.exp >= 0 THEN v.val.mant * Pow10(v.val.exp)
                     ELSE v.val.mant \div Pow10(-v.val.exp)
            IN  IntV(IF v.val.neg THEN 0 - m ELSE m)
      [] OTHER -> Raised

\* float(v) of a number: a float as it is, an int as the float of its value
PyFloatOfNumber(v) ==
    CASE v.kind = "float" -> v
      [] v.kind = "int" -> FloatV(Normal(v.n < 0, IF v.n < 0 THEN 0 - v.n ELSE v.n, 0))
      [] OTHER -> Raised

\* int(data[key]) if data.get(key) else 0
IntOrZero(d, key) == IF Truthy(Get(d, key)) THEN PyInt(d[key]) ELSE IntV(0)

\* float(data[key]) if data.get(key) else 0.0
FloatOrZero(d, key) ==
    IF Truthy(Get(d, key)) THEN PyFloatOfNumber(d[key]) ELSE FloatV(Zero(FALSE))

\* What super().to_representation(instance) can hold: an IntegerField or a
\* count gives an int, a FloatField a float, an attribute that is None
\* gives null; a key may be missing; the other fields hold other values or
\* null.
BaseInts == {Absent, Null, IntV(0), IntV(7), IntV(-3)}

BaseFloats ==
    {Absent, Null, FloatV(Zero(FALSE)), FloatV(Zero(TRUE)),
     FloatV(Normal(FALSE, 25, -1)), FloatV(Normal(TRUE, 15, -1)), FloatV(NaN(FALSE))}

BaseOthers == {Null, Other(1)}

NoData == [f \in ScanFields |-> Absent]

IdleRepr == base = NoData /\ data = NoData /\ rpc = "idle"

(***************************************************************************)
(* SpecParse: float() applied to every text of at most MaxLen characters.  *)
(***************************************************************************)
Chars == {" ", "-", "0", "9", ".", "e", "_", "n", "a", "i", "f"}

RECURSIVE TextsOfLen(_)
TextsOfLen(n) ==
    IF n = 0 THEN {<<>>}
    ELSE {Append(s, c) : s \in TextsOfLen(n - 1), c \in Chars}

Texts == UNION {TextsOfLen(n) : n \in 0..MaxLen}

IdlePass ==
    /\ table = <<>> /\ input = <<>> /\ gps_point = <<>> /\ i = 1
    /\ pc = "idle" /\ normalized = <<>> /\ failed = <<>> /\ visited = <<>>
    /\ run = "first"

InitParse ==
    /\ txt \in Texts
    /\ res = NotParsed
    /\ IdlePass
    /\ IdleRepr

Parse ==
    /\ res.status = "none"
    /\ res' = PyFloat(txt)
    /\ UNCHANGED <<txt, passVars, reprVars>>

NextParse == Parse

SpecParse == InitParse /\ [][NextParse]_vars

(***************************************************************************)
(* The table GPSPath and the migration's pass over it.                     *)
(***************************************************************************)
Str(chars) == [kind |-> "str", chars |-> chars]

Flt(d) == [kind |-> "float", val |-> d]

Dec(neg, mant, exp) == Flt(Normal(neg, mant, exp))

\* isinstance(v, str)
IsStr(v) == v.kind = "str"

Row(id, lat, lon) == [id |-> id, latitude |-> lat, longitude |-> lon]

\* Field values the rows of the table are drawn from: texts that float()
\* reads in range, reads out of range, reads as a non-finite float or
\* rejects, and values that are already floats.
LatSamples ==
    { Str(<<" ", "4", "5", ".", "1", "2", "3">>),
      Str(<<"9", "1", ".", "0">>),
      Str(<<"n", "a", "n">>),
      Str(<<>>),
      Dec(TRUE, 90, 0) }

LonSamples ==
    { Str(<<"-", "1", "2", "2", ".", "5">>),
      Str(<<"1", "e", "3">>),
      Str(<<"a", "b", "c">>),
      Dec(TRUE, 1225, -1),
      Dec(FALSE, 180, 0) }

\* float() of a field's text; the results for the sample texts are
\* evaluated once and looked up
SampleTexts == {v.chars : v \in {w \in LatSamples \cup LonSamples : IsStr(w)}}

FloatOfSample == [s \in SampleTexts |-> PyFloat(s)]

ToFloat(chars) == IF chars \in SampleTexts THEN FloatOfSample[chars] ELSE PyFloat(chars)

\* the table of n rows whose fields f gives, the ids being 1..n
TableOf(n, f) == [k \in 1..n |-> Row(k, f[k][1], f[k][2])]

\* the warning the except clause prints, as the reason of a failed record
UNPARSEABLE == "UNPARSEABLE"

OUT_OF_RANGE == "OUT_OF_RANGE"

Init ==
    /\ \E n \in 0..MaxRecords : \E f \in [1..n -> LatSamples \X LonSamples] :
          table = TableOf(n, f)
    /\ input = table
    /\ gps_point = <<>>
    /\ i = 1
    /\ pc = "loop"
    /\ normalized = <<>>
    /\ failed = <<>>
    /\ visited = <<>>
    /\ run = "first"
    /\ txt = <<>>
    /\ res = NotParsed
    /\ IdleRepr

\* for gps_point in GPSPath.objects.all(): the next row is fetched
Fetch ==
    /\ pc = "loop"
    /\ i <= Len(table)
    /\ gps_point' = <<table[i]>>
    /\ visited' = Append(visited, table[i].id)
    /\ pc' = "lat"
    /\ UNCHANGED <<table, input, i, normalized, failed, run, txt, res, reprVars>>

\* Finish that may return one row early (an off-by-one in the loop bound).
FinishEarly ==
    /\ pc = "loop"
    /\ i >= Len(table)
    /\ pc' = "done"
    /\ UNCHANGED <<table, input, gps_point, i, normalized, failed, visited, run, txt, res, reprVars>>

\* the queryset is exhausted: the function returns
Finish ==
    /\ pc = "loop"
    /\ i > Len(table)
    /\ pc' = "done"
    /\ UNCHANGED <<table, input, gps_point, i, normalized, failed, visited, run, txt, res, reprVars>>

\* ConvertLat whose ValueError is swallowed: the loop body goes on with the
\* latitude still a text.
ConvertLatSwallows ==
    /\ pc = "lat"
    /\ LET p == gps_point[1]
           r == ToFloat(p.latitude.chars)
       IN  IF IsStr(p.latitude) /\ r.status = "ok"
           THEN gps_point' = <<[p EXCEPT !.latitude = Flt(r.value)]>>
           ELSE UNCHANGED gps_point
    /\ pc' = "lon"
    /\ UNCHANGED <<table, input, i, normalized, failed, visited, run, txt, res, reprVars>>

\* ConvertLat with a conversion that takes texts only: a latitude that is
\* not a text raises TypeError.
ConvertLatTypeError ==
    /\ pc = "lat"
    /\ LET p == gps_point[1]
           r == ToFloat(p.latitude.chars)
       IN  IF IsStr(p.latitude) /\ r.status = "ok"
           THEN /\ gps_point' = <<[p EXCEPT !.latitude = Flt(r.value)]>>
                /\ pc' = "lon"
           ELSE pc' = "except" /\ UNCHANGED gps_point
    /\ UNCHANGED <<table, input, i, normalized, failed, visited, run, txt, res, reprVars>>

\* ConvertLat that writes the converted latitude through to the table at
\* once (a save per field).
ConvertLatSavesEarly ==
    /\ pc = "lat"
    /\ LET p == gps_point[1]
           r == ToFloat(p.latitude.chars)
       IN  IF ~IsStr(p.latitude)
           THEN pc' = "lon" /\ UNCHANGED <<gps_point, table>>
           ELSE IF r.status = "ok"
           THEN /\ gps_point' = <<[p EXCEPT !.latitude = Flt(r.value)]>>
                /\ table' = [k \in 1..Len(table) |->
                               IF table[k].id = p.id
                               THEN [p EXCEPT !.latitude = Flt(r.value)]
                               ELSE table[k]]
                /\ pc' = "lon"
           ELSE pc' = "except" /\ UNCHANGED <<gps_point, table>>
    /\ UNCHANGED <<input, i, normalized, failed, visited, run, txt, res, reprVars>>

\* if isinstance(gps_point.latitude, str):
\*     gps_point.latitude = float(gps_point.latitude)
ConvertLat ==
    /\ pc = "lat"
    /\ LET p == gps_point[1]
           r == ToFloat(p.latitude.chars)
       IN  IF ~IsStr(p.latitude)
           THEN pc' = "lon" /\ UNCHANGED gps_point
           ELSE IF r.status = "ok"
           THEN /\ gps_point' = <<[p EXCEPT !.latitude = Flt(r.value)]>>
                /\ pc' = "lon"
           ELSE pc' = "except" /\ UNCHANGED gps_point
    /\ UNCHANGED <<table, input, i, normalized, failed, visited, run, txt, res, reprVars>>

\* ConvertLon that never converts: the longitude is saved as it was read.
ConvertLonSkipped ==
    /\ pc = "lon"
    /\ pc' = "save"
    /\ UNCHANGED <<table, input, gps_point, i, normalized, failed, visited, run, txt, res, reprVars>>

\* ConvertLon with a conversion that takes texts only: a longitude that is
\* not a text raises TypeError.
ConvertLonTypeError ==
    /\ pc = "lon"
    /\ LET p == gps_point[1]
           r == ToFloat(p.longitude.chars)
       IN  IF IsStr(p.longitude) /\ r.status = "ok"
           THEN /\ gps_point' = <<[p EXCEPT !.longitude = Flt(r.value)]>>
                /\ pc' = "save"
           ELSE pc' = "except" /\ UNCHANGED gps_point
    /\ UNCHANGED <<table, input, i, normalized, failed, visited, run, txt, res, reprVars>>

\* if isinstance(gps_point.longitude, str):
\*     gps_point.longitude = float(gps_point.longitude)
ConvertLon ==
    /\ pc = "lon"
    /\ LET p == gps_point[1]
           r == ToFloat(p.longitude.chars)
       IN  IF ~IsStr(p.longitude)
           THEN pc' = "save" /\ UNCHANGED gps_point
           ELSE IF r.status = "ok"
           THEN /\ gps_point' = <<[p EXCEPT !.longitude = Flt(r.value)]>>
                /\ pc' = "save"
           ELSE pc' = "except" /\ UNCHANGED gps_point
    /\ UNCHANGED <<table, input, i, normalized, failed, visited, run, txt, res, reprVars>>

\* gps_point.save(): the row with the object's id is overwritten; the saved
\* records, in the order of the saves, are the normalized output
Save ==
    /\ pc = "save"
    /\ table' = [k \in 1..Len(table) |->
                    IF table[k].id = gps_point[1].id THEN gps_point[1] ELSE table[k]]
    /\ normalized' = Append(normalized, gps_point[1])
    /\ i' = i + 1
    /\ pc' = "loop"
    /\ UNCHANGED <<input, gps_point, failed, visited, run, txt, res, reprVars>>

\* Except that lets the exception out of the function: the pass aborts.
ExceptReraises ==
    /\ pc = "except"
    /\ pc' = "aborted"
    /\ UNCHANGED <<table, input, gps_point, i, normalized, failed, visited, run, txt, res, reprVars>>

\* Except that prints nothing (a bare pass).
ExceptSilent ==
    /\ pc = "except"
    /\ i' = i + 1
    /\ pc' = "loop"
    /\ UNCHANGED <<table, input, gps_point, normalized, failed, visited, run, txt, res, reprVars>>

\* except (ValueError, TypeError): print(f"Warning: ... {gps_point.id}");
\* the warnings, in the order printed, are the failed output
Except ==
    /\ pc = "except"
    /\ failed' = Append(failed, [id |-> gps_point[1].id, reason |-> UNPARSEABLE])
    /\ i' = i + 1
    /\ pc' = "loop"
    /\ UNCHANGED <<table, input, gps_point, normalized, visited, run, txt, res, reprVars>>

\* The migration is applied a second time, to the records the first run
\* saved (its normalized output).
Rerun ==
    /\ pc = "done"
    /\ run = "first"
    /\ run' = "second"
    /\ table' = normalized
    /\ input' = normalized
    /\ gps_point' = <<>>
    /\ i' = 1
    /\ pc' = "loop"
    /\ normalized' = <<>>
    /\ failed' = <<>>
    /\ visited' = <<>>
    /\ UNCHANGED <<txt, res, reprVars>>

Next ==
    \/ Fetch
    \/ ConvertLat
    \/ ConvertLon
    \/ Save
    \/ Except
    \/ Finish
    \/ Rerun

Spec == Init /\ [][Next]_vars

\* The pass is one synchronous loop in one thread: a step that can be taken
\* is taken.
FairSpec == Spec /\ WF_vars(Next)

(***************************************************************************)
(* SpecRepr: to_representation applied to a base representation.           *)
(***************************************************************************)
InitRepr ==
    /\ \E du \in BaseInts, ti \in BaseInts \ {IntV(-3)}, ar \in BaseFloats,
          he \in BaseFloats, ds \in BaseFloats, st \in BaseOthers :
          base = [f \in ScanFields |->
                    CASE f = "duration" -> du
                      [] f = "total_images" -> ti
                      [] f = "area_covered" -> ar
                      [] f = "height" -> he
                      [] f = "data_size_mb" -> ds
                      [] f = "status" -> st
                      [] OTHER -> Other(1)]
    /\ data = base
    /\ rpc = "base"
    /\ IdlePass
    /\ txt = <<>>
    /\ res = NotParsed

\* to_representation with the int() line copied for area_covered
ToRepresentationIntArea ==
    /\ rpc = "base"
    /\ data' = [data EXCEPT !["duration"] = IntOrZero(data, "duration"),
                            !["area_covered"] = IntOrZero(data, "area_covered"),
                            !["height"] = FloatOrZero(data, "height"),
                            !["data_size_mb"] = FloatOrZero(data, "data_size_mb"),
                            !["total_images"] = IntOrZero(data, "total_images")]
    /\ rpc' = "typed"
    /\ UNCHANGED <<base, txt, res, passVars>>

ToRepresentation ==
    /\ rpc = "base"
    /\ data' = [data EXCEPT !["duration"] = IntOrZero(data, "duration"),
                            !["area_covered"] = FloatOrZero(data, "area_covered"),
                            !["height"] = FloatOrZero(data, "height"),
                            !["data_size_mb"] = FloatOrZero(data, "data_size_mb"),
                            !["total_images"] = IntOrZero(data, "total_images")]
    /\ rpc' = "typed"
    /\ UNCHANGED <<base, txt, res, passVars>>

NextRepr == ToRepresentation

SpecRepr == InitRepr /\ [][NextRepr]_vars

(***************************************************************************)
(* Vocabulary of the properties.                                           *)
(***************************************************************************)
Ids(seq) == [k \in 1..Len(seq) |-> seq[k].id]

IdSet(seq) == {seq[k].id : k \in 1..Len(seq)}

NoRepeat(seq) == \A j, k \in 1..Len(seq) : seq[j].id = seq[k].id => j = k

\* the row of the run's input, and the stored row, with a given id
InputRow(id) == input[CHOOSE k \in 1..Len(input) : input[k].id = id]

StoredRow(id) == table[CHOOSE k \in 1..Len(table) : table[k].id = id]

\* float() reads the field, or the field is no text and is left alone
Converts(v) == ~IsStr(v) \/ ToFloat(v.chars).status = "ok"

Converted(v) == IF IsStr(v) THEN Flt(ToFloat(v.chars).value) ELSE v

Convertible(row) == Converts(row.latitude) /\ Converts(row.longitude)

NotConvertible(row) == ~Convertible(row)

\* a float that is finite and within [-lim, lim]
InRange(v, lim) == v.kind = "float" /\ IsFinite(v.val) /\ AbsLeq(v.val, lim)

LatOk(v) == InRange(v, 90)

LonOk(v) == InRange(v, 180)

\* valid as the data model has it: both fields convert to finite floats
\* within their ranges
Valid(row) ==
    /\ Convertible(row)
    /\ LatOk(Converted(row.latitude))
    /\ LonOk(Converted(row.longitude))

Invalid(row) == ~Valid(row)

Done == pc = "done"

(***************************************************************************)
(* C1.  As stated: every record the pass saves has a latitude that is a    *)
(* finite number in [-90, 90] and a longitude that is a finite number in   *)
(* [-180, 180].                                                             *)
(***************************************************************************)
C1_SavedInRange ==
    \A k \in 1..Len(normalized) :
        LatOk(normalized[k].latitude) /\ LonOk(normalized[k].longitude)

\* C1, amended: every saved record holds floats in both fields, each the
\* value float() reads from the text the field held (or the value it held,
\* when that was no text), whatever its range and finite or not; nothing is
\* clamped, and the stored row is the saved record.
C1_SavedAreFloats ==
    \A k \in 1..Len(normalized) :
        LET r == normalized[k]
            o == InputRow(r.id)
        IN  /\ ~IsStr(r.latitude) /\ ~IsStr(r.longitude)
            /\ r.latitude = Converted(o.latitude)
            /\ r.longitude = Converted(o.longitude)
            /\ StoredRow(r.id) = r

\* a saved latitude read from a text and lying outside [-90, 90]
C1_Witness ==
    \E k \in 1..Len(normalized) :
        /\ IsStr(InputRow(normalized[k].id).latitude)
        /\ IsStr(InputRow(normalized[k].id).longitude)
        /\ ~LatOk(normalized[k].latitude)

(***************************************************************************)
(* C2.  As stated: a failed record carries UNPARSEABLE when a text cannot  *)
(* be read and OUT_OF_RANGE when both fields read but one is out of range,  *)
(* and no record with either defect is in the normalized output.            *)
(***************************************************************************)
C2_TwoReasons ==
    /\ \A k \in 1..Len(failed) :
          failed[k].reason = IF Convertible(InputRow(failed[k].id))
                             THEN OUT_OF_RANGE ELSE UNPARSEABLE
    /\ NoRepeat(failed)
    /\ \A k \in 1..Len(normalized) : Valid(InputRow(normalized[k].id))

\* C2, amended: a record is routed to failed exactly once, with the one
\* reason UNPARSEABLE, and only when float() cannot read one of its texts;
\* no such record is in the normalized output; OUT_OF_RANGE is never given:
\* a record whose fields read but lie out of range is saved, not failed.
C2_OneReason ==
    /\ \A k \in 1..Len(failed) :
          /\ failed[k].reason = UNPARSEABLE
          /\ NotConvertible(InputRow(failed[k].id))
    /\ NoRepeat(failed)
    /\ \A k \in 1..Len(normalized) : Convertible(InputRow(normalized[k].id))
    /\ Done => \A k \in 1..Len(input) :
                  Convertible(input[k]) /\ Invalid(input[k])
                      => /\ input[k].id \in IdSet(normalized)
                         /\ input[k].id \notin IdSet(failed)

\* the pass is over, with a failed record and an out-of-range one saved
C2_Witness ==
    /\ Done
    /\ failed # <<>>
    /\ \E k \in 1..Len(input) :
          /\ Convertible(input[k]) /\ Invalid(input[k])
          /\ input[k].id \in IdSet(normalized)

(***************************************************************************)
(* C3.  The pass never aborts on a bad record: the rows are visited once   *)
(* each, in order; when the pass is over every row has been visited and    *)
(* has been saved or reported, the rows after a failing one included; and   *)
(* a pass that has started finishes.                                        *)
(***************************************************************************)
C3_NeverAborts ==
    /\ [](/\ visited = SubSeq(Ids(input), 1, Len(visited))
          /\ Done => /\ visited = Ids(input)
                     /\ IdSet(normalized) \cup IdSet(failed) = IdSet(input))
    /\ (pc # "done") ~> (pc = "done")

\* the pass is over, and a row after a failed one was visited
C3_Witness ==
    /\ Done
    /\ \E j, k \in 1..Len(input) :
          /\ j < k
          /\ input[j].id \in IdSet(failed)
          /\ input[k].id \in IdSet(normalized)
          /\ visited[k] = input[k].id

(***************************************************************************)
(* C4.  As stated, valid meaning in range too: the valid records, in input  *)
(* order, are the normalized output and the invalid ones the failed         *)
(* output.                                                                  *)
(***************************************************************************)
C4_PartitionByValid ==
    Done => /\ Ids(normalized) = Ids(SelectSeq(input, Valid))
            /\ Ids(failed) = Ids(SelectSeq(input, Invalid))

\* C4, amended: with valid meaning that float() reads every textual
\* field, each input record is in exactly one output: the N valid ones in
\* normalized, the M invalid ones in failed, each in input order.
C4_PartitionByConvertible ==
    Done => /\ Ids(normalized) = Ids(SelectSeq(input, Convertible))
            /\ Ids(failed) = Ids(SelectSeq(input, NotConvertible))
            /\ Len(normalized) + Len(failed) = Len(input)
            /\ IdSet(normalized) \cap IdSet(failed) = {}

\* a mixed batch has been processed
C4_Witness ==
    /\ Done
    /\ run = "first"
    /\ Len(input) = MaxRecords
    /\ normalized # <<>>
    /\ failed # <<>>

(***************************************************************************)
(* C5.  As stated: the routine leaves the records it was given as they     *)
(* were: a failed record's fields are unchanged, and nothing is mutated in  *)
(* place.                                                                   *)
(***************************************************************************)
C5_ReadOnly ==
    /\ table = input
    /\ pc = "except" => gps_point[1] = InputRow(gps_point[1].id)

\* C5, amended: the stored row of a failed record is left as it was, also
\* when its latitude text is read and its longitude text is not (the
\* converted latitude is on the fetched object only); the routine makes no
\* new outputs: a record that converts is changed in place and written to
\* the table it was read from, and no other row changes.
C5_FailedRowsKept ==
    /\ pc = "except" => StoredRow(gps_point[1].id) = InputRow(gps_point[1].id)
    /\ \A k \in 1..Len(failed) : StoredRow(failed[k].id) = InputRow(failed[k].id)
    /\ \A k \in 1..Len(table) :
          \/ table[k] = input[k]
          \/ \E j \in 1..Len(normalized) : table[k] = normalized[j]

\* the latitude was read, the longitude raised: the fetched object differs
\* from the stored row
C5_Witness ==
    /\ pc = "except"
    /\ gps_point[1].latitude # InputRow(gps_point[1].id).latitude
    /\ normalized # <<>>

(***************************************************************************)
(* C6.  When every input record holds floats within range, the pass        *)
(* returns the records with both values unchanged and fails none.           *)
(***************************************************************************)
AllNumericInRange ==
    \A k \in 1..Len(input) : LatOk(input[k].latitude) /\ LonOk(input[k].longitude)

C6_NumericUnchanged ==
    (Done /\ AllNumericInRange) => /\ normalized = input
                                   /\ table = input
                                   /\ failed = <<>>

C6_Witness ==
    /\ Done
    /\ run = "first"
    /\ Len(input) = MaxRecords
    /\ AllNumericInRange

(***************************************************************************)
(* C7.  Idempotence: the pass applied to the normalized output of a first  *)
(* pass returns the same records unchanged and fails none.                  *)
(***************************************************************************)
C7_Idempotent ==
    (Done /\ run = "second") => /\ normalized = input
                                /\ table = input
                                /\ failed = <<>>

C7_Witness ==
    /\ Done
    /\ run = "second"
    /\ Len(input) = MaxRecords

(***************************************************************************)
(* C8.  The forms of text.                                                 *)
(***************************************************************************)
\* digits with at most one decimal point
PlainDecimal(s) ==
    /\ \A k \in 1..Len(s) : s[k] \in Digits \cup {"."}
    /\ Cardinality({k \in 1..Len(s) : s[k] = "."}) <= 1
    /\ \E k \in 1..Len(s) : s[k] \in Digits

Signed(s) == IF s # <<>> /\ s[1] \in {"+", "-"} THEN Tail(s) ELSE s

\* s with its blanks cut off at both ends is c
CoreOf(s, c) ==
    \E lo \in 1..Len(s) : \E hi \in lo..Len(s) :
        /\ \A k \in 1..Len(s) : (k < lo \/ k > hi) => IsSpace(s[k])
        /\ ~IsSpace(s[lo]) /\ ~IsSpace(s[hi])
        /\ c = SubSeq(s, lo, hi)

Cores(s) == {SubSeq(s, lo, hi) : lo \in 1..Len(s), hi \in 1..Len(s)}

\* the standard decimal: optional blanks around an optional sign and
\* digits with an optional single decimal point
StdDecimal(s) == \E c \in Cores(s) : CoreOf(s, c) /\ PlainDecimal(Signed(c))

\* a decimal followed by e or E, an optional sign and digits
WithExponent(s) ==
    \E k \in 2..(Len(s) - 1) :
        /\ s[k] \in {"e", "E"}
        /\ PlainDecimal(SubSeq(s, 1, k - 1))
        /\ LET x == Signed(SubSeq(s, k + 1, Len(s)))
           IN  x # <<>> /\ \A j \in 1..Len(x) : x[j] \in Digits

\* inf, infinity or nan, in any case
SpecialWord(s) ==
    [k \in 1..Len(s) |-> Lower(s[k])] \in
        {<<"i", "n", "f">>, <<"n", "a", "n">>,
         <<"i", "n", "f", "i", "n", "i", "t", "y">>}

\* the forms float() reads that are no standard decimal: an exponent, a
\* special word, and either of the numeric forms with single underscores
\* between digits
ExtendedForm(s) ==
    \E c \in Cores(s) :
        /\ CoreOf(s, c)
        /\ \/ SpecialWord(Signed(c))
           \/ WithExponent(Signed(c))
           \/ /\ \E k \in 1..Len(c) : c[k] = "_"
              /\ \A k \in 1..Len(c) :
                    c[k] = "_" => /\ k > 1 /\ k < Len(c)
                                  /\ c[k - 1] \in Digits /\ c[k + 1] \in Digits
              /\ LET u == Signed(SelectSeq(c, NotUnderscore))
                 IN  PlainDecimal(u) \/ WithExponent(u)

Blank(s) == \A k \in 1..Len(s) : IsSpace(s[k])

DecimalPoints(s) == Cardinality({k \in 1..Len(s) : s[k] = "."})

\* C8, as stated: float() reads a text exactly when it is a standard
\* decimal.
C8_OnlyStdDecimal ==
    res.status # "none" => (res.status = "ok" <=> StdDecimal(txt))

\* C8, amended: float() reads every standard decimal and rejects empty and
\* blank texts, texts with more than one decimal point and other
\* non-numeric text; it also reads exactly these other forms: a decimal
\* with an exponent, the words inf, infinity and nan (optionally signed, in
\* any case), and numbers whose digits single underscores separate.
C8_StdDecimalAndMore ==
    res.status # "none" =>
        /\ res.status = "ok" <=> (StdDecimal(txt) \/ ExtendedForm(txt))
        /\ (Blank(txt) \/ DecimalPoints(txt) >= 2) => res = ValueError
        /\ res.status = "ok" => res.value.cls \in {"fin", "inf", "nan"}

\* a text that is no standard decimal has been read
C8_Witness ==
    /\ res.status = "ok"
    /\ ~StdDecimal(txt)
    /\ Len(txt) = MaxLen

(***************************************************************************)
(* C9.  A record is saved at most once, and exactly when float() reads     *)
(* both of its textual fields; a record whose latitude is read and whose   *)
(* longitude raises is never saved, so no stored row holds a converted     *)
(* latitude beside an unconverted longitude; the warning, with the         *)
(* record's id, is given for exactly the records that are not saved.       *)
(***************************************************************************)
C9_SavedOnceOrWarned ==
    /\ NoRepeat(normalized)
    /\ NoRepeat(failed)
    /\ \A k \in 1..Len(normalized) : Convertible(InputRow(normalized[k].id))
    /\ \A k \in 1..Len(table) :
          ~(/\ IsStr(input[k].latitude)
            /\ ~IsStr(table[k].latitude)
            /\ IsStr(table[k].longitude))
    /\ Done => \A k \in 1..Len(input) :
                  /\ input[k].id \in IdSet(normalized) <=> Convertible(input[k])
                  /\ input[k].id \in IdSet(failed) <=> input[k].id \notin IdSet(normalized)

\* the pass is over; a record whose latitude was read and whose longitude
\* raised has its warning
C9_Witness ==
    /\ Done
    /\ \E k \in 1..Len(input) :
          /\ IsStr(input[k].latitude)
          /\ Converts(input[k].latitude)
          /\ ~Converts(input[k].longitude)
          /\ input[k].id \in IdSet(failed)
          /\ table[k] = input[k]

(***************************************************************************)
(* C10.  The representation to_representation returns has duration and     *)
(* total_images as ints and area_covered, height and data_size_mb as       *)
(* floats, never null or absent: a value that was missing, null or zero is *)
(* 0 (0.0), any other value is the value the base representation held, and *)
(* no other field differs from the base representation.                     *)
(***************************************************************************)
MissingNullOrZero(v) ==
    \/ v.kind \in {"absent", "null"}
    \/ v.kind = "int" /\ v.n = 0
    \/ v.kind = "float" /\ v.val.cls = "fin" /\ v.val.mant = 0

C10_NumericFieldsTyped ==
    rpc = "typed" =>
        /\ \A f \in IntFields :
              /\ data[f].kind = "int"
              /\ data[f] = IF MissingNullOrZero(base[f]) THEN IntV(0) ELSE base[f]
        /\ \A f \in FloatFields :
              /\ data[f].kind = "float"
              /\ data[f] = IF MissingNullOrZero(base[f])
                           THEN FloatV(Zero(FALSE)) ELSE base[f]
        /\ \A f \in ScanFields \ (IntFields \cup FloatFields) : data[f] = base[f]

\* a null duration became 0, a negative zero 0.0, a nan and a nonzero
\* float were kept, and the null status is still null
C10_Witness ==
    /\ rpc = "typed"
    /\ base["duration"] = Null
    /\ base["area_covered"] = FloatV(Zero(TRUE))
    /\ base["height"] = FloatV(NaN(FALSE))
    /\ base["data_size_mb"] = FloatV(Normal(FALSE, 25, -1))
    /\ base["total_images"] = Absent
    /\ base["status"] = Null

====
